---- MODULE Spec2Model ----
(***************************************************************************)
(* create_shared_mailbox.py: creates a shared mailbox in Yandex 360 and    *)
(* assigns the accesses listed in actors.csv.                              *)
(*                                                                         *)
(* A Python str is modelled as a sequence of atoms.  An atom is a single   *)
(* special character (" ", ",", "#", "@") or a run of characters holding   *)
(* none of them ("tok", "shared_mailbox_owner", "NONE").  strip, split and *)
(* lower are computed on these sequences as the library computes them.     *)
(***************************************************************************)
EXTENDS Integers, Sequences, FiniteSets, TLC

VARIABLES
    environ,        \* os.environ once load_dotenv() has run; None = not set
    pc,             \* position of main(): the next blocking step
    token,          \* main: token
    org_id,         \* main: org_id
    env_notify,     \* main: env_notify
    email,          \* main: email
    name,           \* main: name
    description,    \* main: description
    mailbox_id,     \* main: mailbox_id
    actors_path,    \* main: actors_path
    file,           \* the content found at actors_path when it was parsed
    entries,        \* main: entries
    global_notify,  \* main: global_notify
    idx,            \* position of the for loop of main in entries (1-based)
    ok,             \* main: ok
    fail,           \* main: fail
    http,           \* the requests issued so far, in order, with their outcome
    prompts,        \* answers refused so far by the running resolve_global_notify
    exit_code,      \* <<>> while running, <<status>> once the process has ended
    fn,             \* SpecFn: the function under test
    fn_arg,         \* SpecFn: its argument
    fn_ret          \* SpecFn: its result

vars == <<environ, pc, token, org_id, env_notify, email, name, description, mailbox_id,
          actors_path, file, entries, global_notify, idx, ok, fail, http,
          prompts, exit_code, fn, fn_arg, fn_ret>>

mainVars == <<environ, pc, token, org_id, env_notify, email, name, description,
              mailbox_id, actors_path, file, entries, global_notify, idx, ok,
              fail, http, prompts, exit_code>>

fnVars == <<fn, fn_arg, fn_ret>>

-----------------------------------------------------------------------------
(* Bounds of the model *)

\* longest actor file, in lines, read by a run of main()
MaxLines == 3
\* longest actor file, in lines, given to parse_actors_csv on its own
MaxFnLines == 3
\* longest role list given to ensure_roles_valid on its own
MaxRoles == 4
\* most answers refused at the notify prompt in one run
MaxPrompts == 2

-----------------------------------------------------------------------------
(* Python values *)

\* None: an atom no str holds
None == <<"<None>">>

\* what input() raises when the user presses Ctrl-C
KeyboardInterrupt == <<"<KeyboardInterrupt>">>

\* bool(v) of a str or None
Truthy(v) == v # None /\ v # <<>>

Range(s) == {s[i] : i \in 1..Len(s)}

IsSpace(a) == a = " "

RECURSIVE lstrip(_)
lstrip(s) == IF s # <<>> /\ IsSpace(Head(s)) THEN lstrip(Tail(s)) ELSE s

RECURSIVE rstrip(_)
rstrip(s) ==
    IF s # <<>> /\ IsSpace(s[Len(s)]) THEN rstrip(SubSeq(s, 1, Len(s) - 1)) ELSE s

\* str.strip()
strip(s) == rstrip(lstrip(s))

\* str.lower() of one atom
LowerAtom(a) ==
    CASE a = "ALL" -> "all"
      [] a = "All" -> "all"
      [] a = "NONE" -> "none"
      [] a = "None" -> "none"
      [] a = "Delegates" -> "delegates"
      [] a = "DELEGATES" -> "delegates"
      [] a = "BOGUS" -> "bogus"
      [] OTHER -> a

\* str.lower()
lower(s) == [i \in 1..Len(s) |-> LowerAtom(s[i])]

\* index of the first "," of s (s holds one)
FirstComma(s) == CHOOSE i \in 1..Len(s) : s[i] = "," /\ \A j \in 1..(i - 1) : s[j] # ","

\* str.split(",")
RECURSIVE split(_)
split(s) ==
    IF "," \notin Range(s)
    THEN <<s>>
    ELSE LET i == FirstComma(s)
         IN  <<SubSeq(s, 1, i - 1)>> \o split(SubSeq(s, i + 1, Len(s)))

\* [f(x) for x in seq]
RECURSIVE StripAll(_)
StripAll(seq) ==
    IF seq = <<>> THEN <<>> ELSE <<strip(Head(seq))>> \o StripAll(Tail(seq))

\* [p for p in seq if p]
RECURSIVE NonEmpty(_)
NonEmpty(seq) ==
    IF seq = <<>> THEN <<>>
    ELSE (IF Head(seq) # <<>> THEN <<Head(seq)>> ELSE <<>>) \o NonEmpty(Tail(seq))

-----------------------------------------------------------------------------
(* Constants of the program *)

VALID_NOTIFY == {<<"all">>, <<"delegates">>, <<"none">>}

OWNER == <<"shared_mailbox_owner">>
SENDER == <<"shared_mailbox_sender">>

\* a role the program gives no meaning to
READER == <<"shared_mailbox_reader">>

\* the candidate field names of the create response, in the order tried
ID_KEYS == <<"id", "mailboxId", "resourceId">>

-----------------------------------------------------------------------------
(* Pure functions *)

\* ask(prompt, default) for a typed line; default = None when not given
ask(typed, default) ==
    LET s == strip(typed)
    IN  IF s = <<>> /\ default # None THEN default ELSE s

\* os.getenv(key, "")
getenv(env, key) == IF env[key] = None THEN <<>> ELSE env[key]

\* load_env() that keeps a NOTIFY value outside VALID_NOTIFY
load_env_keeps_invalid(env) ==
    LET tok == strip(getenv(env, "TOKEN"))
        org == strip(getenv(env, "ORG_ID"))
        n0  == lower(strip(getenv(env, "NOTIFY")))
        n1  == IF n0 = <<>> THEN None ELSE n0
    IN  IF tok = <<>> \/ org = <<>>
        THEN [died |-> TRUE, token |-> tok, org_id |-> org, notify |-> None]
        ELSE [died |-> FALSE, token |-> tok, org_id |-> org, notify |-> n1]

\* load_env(): died, or the triple it returns
load_env(env) ==
    LET tok == strip(getenv(env, "TOKEN"))
        org == strip(getenv(env, "ORG_ID"))
        n0  == lower(strip(getenv(env, "NOTIFY")))
        n1  == IF n0 = <<>> THEN None ELSE n0
        n2  == IF Truthy(n1) /\ n1 \notin VALID_NOTIFY THEN None ELSE n1
    IN  IF tok = <<>> \/ org = <<>>
        THEN [died |-> TRUE, token |-> tok, org_id |-> org, notify |-> None]
        ELSE [died |-> FALSE, token |-> tok, org_id |-> org, notify |-> n2]

\* dedup(items): seen/res loop
RECURSIVE dedup_from(_, _, _)
dedup_from(items, seen, res) ==
    IF items = <<>> THEN res
    ELSE IF Head(items) \notin seen
         THEN dedup_from(Tail(items), seen \cup {Head(items)}, Append(res, Head(items)))
         ELSE dedup_from(Tail(items), seen, res)

\* dedup that returns its argument
dedup_identity(items) == items

dedup(items) == dedup_from(items, {}, <<>>)

\* ensure_roles_valid that keeps the other roles beside the owner role
ensure_roles_valid_keeps_others(roles) ==
    LET r == dedup(roles)
    IN  IF ~(\E x \in {SENDER, OWNER} : x \in Range(r))
        THEN Append(r, SENDER)
        ELSE r

\* ensure_roles_valid(roles)
ensure_roles_valid(roles) ==
    LET r == dedup(roles)
    IN  IF OWNER \in Range(r) THEN <<OWNER>>
        ELSE IF ~(\E x \in {SENDER, OWNER} : x \in Range(r))
             THEN Append(r, SENDER)
             ELSE r

\* parts of parse_actors_csv: the non-empty trimmed fields of a trimmed line
line_parts(raw) == NonEmpty(StripAll(split(raw)))

\* payload and payload[-1].lower() in VALID_NOTIFY
has_row_notify(payload) ==
    payload # <<>> /\ lower(payload[Len(payload)]) \in VALID_NOTIFY

\* per_row_notify of parse_actors_csv
row_notify(payload) ==
    IF has_row_notify(payload) THEN lower(payload[Len(payload)]) ELSE None

\* roles that keep a trailing notify field
row_roles_keeps_notify(payload) == payload

\* roles of parse_actors_csv, before dedup
row_roles(payload) ==
    IF has_row_notify(payload) THEN SubSeq(payload, 1, Len(payload) - 1) ELSE payload

\* one turn of the for loop of parse_actors_csv: what the line leads to
\* ("blank", "comment", "short" and "noroles" continue; "row" appends entry)
parse_line(line) ==
    LET raw     == strip(line)
        parts   == line_parts(raw)
        payload == Tail(parts)
        skip(k) == [kind |-> k, entry |-> <<>>]
    IN  IF raw = <<>> THEN skip("blank")
        ELSE IF Head(raw) = "#" THEN skip("comment")
        ELSE IF Len(parts) < 2 THEN skip("short")
        ELSE IF row_roles(payload) = <<>> THEN skip("noroles")
        ELSE [kind |-> "row",
              entry |-> [actor_id |-> parts[1],
                         roles |-> dedup(row_roles(payload)),
                         per_row_notify |-> row_notify(payload)]]

\* the list out of parse_actors_csv after the lines given
RECURSIVE parse_rows(_)
parse_rows(lines) ==
    IF lines = <<>> THEN <<>>
    ELSE LET r == parse_line(Head(lines))
         IN  (IF r.kind = "row" THEN <<r.entry>> ELSE <<>>) \o parse_rows(Tail(lines))

\* file before parse_actors_csv has opened anything
NotRead == << <<"<not read>">> >>

\* what os.path.isfile(path) is false for
NoFile == << <<"<no such file>">> >>

\* parse_actors_csv without its final "if not out: die(...)"
parse_actors_csv_keeps_empty(f) ==
    IF f = NoFile THEN [died |-> TRUE, out |-> <<>>]
    ELSE [died |-> FALSE, out |-> parse_rows(f)]

\* parse_actors_csv(path), f the content at path: died, or the list returned
parse_actors_csv(f) ==
    IF f = NoFile THEN [died |-> TRUE, out |-> <<>>]
    ELSE LET out == parse_rows(f)
         IN  IF out = <<>> THEN [died |-> TRUE, out |-> <<>>]
             ELSE [died |-> FALSE, out |-> out]

-----------------------------------------------------------------------------
(* JSON values of a response: [t |-> type, s |-> the str, n |-> the int];  *)
(* a key a dict does not hold maps to Absent                               *)

Absent    == [t |-> "absent", s |-> <<>>, n |-> 0]
JNull     == [t |-> "null", s |-> <<>>, n |-> 0]
JStr(s)   == [t |-> "str", s |-> s, n |-> 0]
JNum(n)   == [t |-> "num", s |-> <<>>, n |-> n]

\* str(x)
str(x) ==
    CASE x.t = "str" -> x.s
      [] x.t = "num" -> <<ToString(x.n)>>
      [] OTHER -> None

\* x not in (None, "")
NotNoneOrEmpty(x) == ~(x.t = "null") /\ ~(x.t = "str" /\ x.s = <<>>)

\* not x
Falsy(x) == x.t = "null" \/ (x.t = "str" /\ x.s = <<>>) \/ (x.t = "num" /\ x.n = 0)

\* json_get_any(d, keys, default=None)
RECURSIVE json_get_any(_, _)
json_get_any(d, keys) ==
    IF keys = <<>> THEN JNull
    ELSE IF d[Head(keys)].t # "absent" /\ NotNoneOrEmpty(d[Head(keys)])
         THEN d[Head(keys)]
         ELSE json_get_any(d, Tail(keys))

\* the dict {}
EmptyDict == [k \in Range(ID_KEYS) |-> Absent]

\* create_shared_mailbox from the answer to requests.put on: the id it
\* returns, or the exception it raises (with the data its message shows)
create_shared_mailbox(r) ==
    LET raise(e, d) == [raised |-> TRUE, exc |-> e, value |-> None, shown |-> d]
        data == IF r.content = "empty" THEN EmptyDict ELSE r.data
        mid  == json_get_any(data, ID_KEYS)
    IN  IF r.kind # "response" THEN raise(r.kind, EmptyDict)
        ELSE IF r.status_code # 200 THEN raise("RuntimeError status", EmptyDict)
        ELSE IF r.content = "garbage" THEN raise("JSONDecodeError", EmptyDict)
        ELSE IF Falsy(mid) THEN raise("RuntimeError no id", data)
        ELSE [raised |-> FALSE, exc |-> "", value |-> str(mid), shown |-> EmptyDict]

\* set_access that looks at the status code alone
set_access_raises_status_only(r) == r.kind = "response" /\ r.status_code # 200

\* set_access from the answer to requests.post on: whether it raises
set_access_raises(r) == r.kind # "response" \/ r.status_code # 200

\* main: notify = per_row_notify or global_notify
effective_notify(per_row_notify, g) ==
    IF Truthy(per_row_notify) THEN per_row_notify ELSE g

-----------------------------------------------------------------------------
(* What the run reads: the environment, the terminal, the file, the server *)

\* .env / process environment; None = the variable is not set
Envs ==
    [{"TOKEN", "ORG_ID", "NOTIFY"} -> {None}] \cup
    {[TOKEN |-> t, ORG_ID |-> o, NOTIFY |-> n] :
        t \in {None, <<" ">>, <<" ", "tok", " ">>},
        o \in {<<>>, <<"org1">>},
        n \in {None, <<" ">>, <<"ALL">>, <<" ", "none">>, <<"bogus">>}}

TypedEmails == {<<>>, <<"box">>, <<" ", "box", "@", "org.ru", " ">>, KeyboardInterrupt}
TypedNames == {<<" ">>, <<"Box", " ">>, KeyboardInterrupt}
TypedDescriptions ==
    {<<"shared", " ", "box">>, <<" ", "shared", " ", "box">>, KeyboardInterrupt}
TypedPaths == {<<>>, <<"actors.csv", " ">>, KeyboardInterrupt}
TypedNotifies ==
    {<<>>, <<"NONE">>, <<"Delegates", " ">>, <<"all">>, <<"bogus">>, <<"BOGUS">>,
     KeyboardInterrupt}

\* lines of actor files read by a run of main()
MainLines ==
    { <<>>,
      <<"#", " ", "u9", ",", "shared_mailbox_owner">>,
      <<"badrow">>,
      <<"u3", ",", "none">>,
      <<"u1", ",", "shared_mailbox_reader">>,
      <<"u1", ",", " ", "shared_mailbox_owner", ",", "shared_mailbox_sender", ",", "NONE">> }

\* all sequences over S of length at most n
SeqsUpTo(S, n) == UNION {[1..k -> S] : k \in 0..n}

MainFiles == SeqsUpTo(MainLines, MaxLines) \cup {NoFile}

\* values a field of the create response may hold
JsonValues == {Absent, JNull, JStr(<<>>), JStr(<<"mb1">>), JNum(0), JNum(7)}

\* answers to requests.put / requests.post: a response, or an exception
HttpFailures ==
    {[kind |-> k, status_code |-> 0, content |-> "empty", data |-> EmptyDict] :
        k \in {"Timeout", "ConnectionError"}}

CreateAnswers ==
    {[kind |-> "response", status_code |-> 200, content |-> "json", data |-> d] :
        d \in [Range(ID_KEYS) -> JsonValues]}
    \cup {[kind |-> "response", status_code |-> c, content |-> b, data |-> EmptyDict] :
        c \in {200, 403}, b \in {"empty", "garbage"}}
    \cup HttpFailures

SetAccessAnswers ==
    {[kind |-> "response", status_code |-> c, content |-> "empty", data |-> EmptyDict] :
        c \in {200, 403}}
    \cup HttpFailures

-----------------------------------------------------------------------------
(* main() *)

\* die(msg, code=1): sys.exit(code)
DIE_CODE == 1

die ==
    /\ pc' = "exited"
    /\ exit_code' = <<DIE_CODE>>

\* an exception swallowed: main() goes on to the next statement
uncaught_swallowed ==
    /\ pc' = "ask_path"
    /\ UNCHANGED exit_code

\* an exception main() does not catch: traceback, the interpreter exits with 1
uncaught ==
    /\ pc' = "exited"
    /\ exit_code' = <<1>>

Init ==
    /\ environ \in Envs
    /\ pc = "load_env"
    /\ token = None /\ org_id = None /\ env_notify = None
    /\ email = None /\ name = None /\ description = None
    /\ mailbox_id = None
    /\ actors_path = None
    /\ file = NotRead
    /\ entries = <<>>
    /\ global_notify = None
    /\ idx = 1 /\ ok = 0 /\ fail = 0
    /\ http = <<>>
    /\ prompts = 0
    /\ exit_code = <<>>
    /\ fn = "main" /\ fn_arg = <<>> /\ fn_ret = <<>>

\* token, org_id, env_notify = load_env(); api = Api360(token, org_id)
LoadEnv ==
    /\ pc = "load_env"
    /\ LET r == load_env(environ)
        IN  IF r.died
            THEN die /\ UNCHANGED <<token, org_id, env_notify>>
            ELSE /\ token' = r.token
                 /\ org_id' = r.org_id
                 /\ env_notify' = r.notify
                 /\ pc' = "ask_email"
                 /\ UNCHANGED exit_code
    /\ UNCHANGED <<environ, email, name, description, mailbox_id, actors_path, file, entries,
                   global_notify, idx, ok, fail, http, prompts>>
    /\ UNCHANGED fnVars

\* email = ask(...)
AskEmail ==
    /\ pc = "ask_email"
    /\ \E typed \in TypedEmails :
        IF typed = KeyboardInterrupt
        THEN die /\ UNCHANGED email
        ELSE email' = ask(typed, None) /\ pc' = "ask_name" /\ UNCHANGED exit_code
    /\ UNCHANGED <<environ, token, org_id, env_notify, name, description, mailbox_id,
                   actors_path, file, entries, global_notify, idx, ok, fail, http,
                   prompts>>
    /\ UNCHANGED fnVars

\* name = ask(...)
AskName ==
    /\ pc = "ask_name"
    /\ \E typed \in TypedNames :
        IF typed = KeyboardInterrupt
        THEN die /\ UNCHANGED name
        ELSE name' = ask(typed, None) /\ pc' = "ask_description" /\ UNCHANGED exit_code
    /\ UNCHANGED <<environ, token, org_id, env_notify, email, description, mailbox_id,
                   actors_path, file, entries, global_notify, idx, ok, fail, http,
                   prompts>>
    /\ UNCHANGED fnVars

\* description = ask(...)
AskDescription ==
    /\ pc = "ask_description"
    /\ \E typed \in TypedDescriptions :
        IF typed = KeyboardInterrupt
        THEN die /\ UNCHANGED description
        ELSE /\ description' = ask(typed, None)
             /\ pc' = "check_input"
             /\ UNCHANGED exit_code
    /\ UNCHANGED <<environ, token, org_id, env_notify, email, name, mailbox_id,
                   actors_path, file, entries, global_notify, idx, ok, fail, http,
                   prompts>>
    /\ UNCHANGED fnVars

\* the check of main() without its test of the email
input_accepted_name_only(e, n) == n # <<>>

\* whether main() goes on to the create call with this email and name
input_accepted(e, n) == "@" \in Range(e) /\ n # <<>>

\* if "@" not in email: die(...); if not name: die(...)
CheckInput ==
    /\ pc = "check_input"
    /\ IF input_accepted(email, name)
       THEN pc' = "create" /\ UNCHANGED exit_code
       ELSE die
    /\ UNCHANGED <<environ, token, org_id, env_notify, email, name, description, mailbox_id,
                   actors_path, file, entries, global_notify, idx, ok, fail, http,
                   prompts>>
    /\ UNCHANGED fnVars

\* how a request ended for its caller: with a response, or with an exception
\* of requests (a timeout, a connection error)
outcome(r) == IF r.kind = "response" THEN "response" ELSE "exception"

\* the request requests.put sends, with the answer it got
put_request(r) ==
    [method |-> "PUT", org_id |-> org_id, token |-> token, mailbox_id |-> None,
     actorId |-> None, notify |-> None, roles |-> <<>>,
     email |-> email, name |-> name, description |-> description,
     kind |-> outcome(r), status_code |-> r.status_code,
     returned |-> create_shared_mailbox(r).value]

\* mailbox_id = api.create_shared_mailbox(email=..., name=..., description=...)
CreateSharedMailbox ==
    /\ pc = "create"
    /\ \E r \in CreateAnswers :
        /\ http' = Append(http, put_request(r))
        /\ IF create_shared_mailbox(r).raised
           THEN uncaught /\ UNCHANGED mailbox_id
           ELSE /\ mailbox_id' = create_shared_mailbox(r).value
                /\ pc' = "ask_path"
                /\ UNCHANGED exit_code
    /\ UNCHANGED <<environ, token, org_id, env_notify, email, name, description,
                   actors_path, file, entries, global_notify, idx, ok, fail, prompts>>
    /\ UNCHANGED fnVars

\* actors_path = ask(..., default="actors.csv")
AskActorsPath ==
    /\ pc = "ask_path"
    /\ \E typed \in TypedPaths :
        IF typed = KeyboardInterrupt
        THEN die /\ UNCHANGED actors_path
        ELSE /\ actors_path' = ask(typed, <<"actors.csv">>)
             /\ pc' = "parse"
             /\ UNCHANGED exit_code
    /\ UNCHANGED <<environ, token, org_id, env_notify, email, name, description, mailbox_id,
                   file, entries, global_notify, idx, ok, fail, http, prompts>>
    /\ UNCHANGED fnVars

\* entries = parse_actors_csv(actors_path)
ParseActorsCsv ==
    /\ pc = "parse"
    /\ \E f \in MainFiles :
        LET parsed == parse_actors_csv(f)
        IN  /\ file' = f
            /\ IF parsed.died
               THEN die /\ UNCHANGED entries
               ELSE /\ entries' = parsed.out
                    /\ pc' = "resolve_notify"
                    /\ UNCHANGED exit_code
    /\ UNCHANGED <<environ, token, org_id, env_notify, email, name, description, mailbox_id,
                   actors_path, global_notify, idx, ok, fail, http, prompts>>
    /\ UNCHANGED fnVars

\* resolve_global_notify(env_notify): if env_notify: return env_notify
ResolveGlobalNotify ==
    /\ pc = "resolve_notify"
    /\ Truthy(env_notify)
    /\ global_notify' = env_notify
    /\ pc' = "assign"
    /\ UNCHANGED <<environ, token, org_id, env_notify, email, name, description, mailbox_id,
                   actors_path, file, entries, idx, ok, fail, http, prompts,
                   exit_code>>
    /\ UNCHANGED fnVars

\* v of resolve_global_notify for a typed answer
notify_answer(typed) == lower(ask(typed, <<"all">>))

\* resolve_global_notify(env_notify): one turn of the while True loop
AskNotify ==
    /\ pc = "resolve_notify"
    /\ ~Truthy(env_notify)
    /\ \E typed \in TypedNotifies :
        IF typed = KeyboardInterrupt
        THEN die /\ prompts' = 0 /\ UNCHANGED global_notify
        ELSE IF notify_answer(typed) \in VALID_NOTIFY
        THEN /\ global_notify' = notify_answer(typed)
             /\ pc' = "assign"
             /\ prompts' = 0
             /\ UNCHANGED exit_code
        ELSE /\ prompts < MaxPrompts
             /\ prompts' = prompts + 1
             /\ UNCHANGED <<pc, global_notify, exit_code>>
    /\ UNCHANGED <<environ, token, org_id, env_notify, email, name, description, mailbox_id,
                   actors_path, file, entries, idx, ok, fail, http>>
    /\ UNCHANGED fnVars

\* the request requests.post sends for entry e, with the answer it got
post_request(e, r) ==
    [method |-> "POST", org_id |-> org_id, token |-> token, mailbox_id |-> mailbox_id,
     actorId |-> e.actor_id,
     notify |-> effective_notify(e.per_row_notify, global_notify),
     roles |-> ensure_roles_valid(e.roles),
     email |-> None, name |-> None, description |-> None,
     kind |-> outcome(r), status_code |-> r.status_code, returned |-> None]

\* a loop that tries the same entry again after a failure
after_call_retry(i, r) == IF set_access_raises(r) THEN i ELSE i + 1

\* the for loop of main() moves on to the next entry whatever the answer r was
after_call(i, r) == i + 1

\* one turn of the for loop of main(): set_access in try/except Exception
SetAccess ==
    /\ pc = "assign"
    /\ idx <= Len(entries)
    /\ \E r \in SetAccessAnswers :
        /\ http' = Append(http, post_request(entries[idx], r))
        /\ IF set_access_raises(r)
           THEN fail' = fail + 1 /\ UNCHANGED ok
           ELSE ok' = ok + 1 /\ UNCHANGED fail
        /\ idx' = after_call(idx, r)
    /\ UNCHANGED <<environ, pc, token, org_id, env_notify, email, name, description,
                   mailbox_id, actors_path, file, entries, global_notify, prompts,
                   exit_code>>
    /\ UNCHANGED fnVars

\* the loop is over: print the totals, main() returns, exit status 0
PrintTotals ==
    /\ pc = "assign"
    /\ idx > Len(entries)
    /\ pc' = "done"
    /\ exit_code' = <<0>>
    /\ UNCHANGED <<environ, token, org_id, env_notify, email, name, description, mailbox_id,
                   actors_path, file, entries, global_notify, idx, ok, fail, http,
                   prompts>>
    /\ UNCHANGED fnVars

Next ==
    \/ LoadEnv
    \/ AskEmail
    \/ AskName
    \/ AskDescription
    \/ CheckInput
    \/ CreateSharedMailbox
    \/ AskActorsPath
    \/ ParseActorsCsv
    \/ ResolveGlobalNotify
    \/ AskNotify
    \/ SetAccess
    \/ PrintTotals

Spec == Init /\ [][Next]_vars

-----------------------------------------------------------------------------
(* The functions on their own: called once on an argument drawn from the   *)
(* sets below; fn_ret is <<>> before the call and <<result>> after it      *)

\* lines of actor files given to parse_actors_csv
FnLines ==
    MainLines \cup
    { <<" ", " ">>,
      <<" ", "#", "comment">>,
      <<",", " ", ",">>,
      <<"u3", ",", ",", "shared_mailbox_reader", ",", "shared_mailbox_reader", ",", "All">>,
      <<"u2", ",", "all", ",", "shared_mailbox_sender", ",", "all">> }

FnFiles == SeqsUpTo(FnLines, MaxFnLines) \cup {NoFile}

FnRoleLists == SeqsUpTo({OWNER, SENDER, READER}, MaxRoles)

InitFn ==
    /\ environ = [k \in {"TOKEN", "ORG_ID", "NOTIFY"} |-> None]
    /\ pc = "load_env"
    /\ token = None /\ org_id = None /\ env_notify = None
    /\ email = None /\ name = None /\ description = None
    /\ mailbox_id = None
    /\ actors_path = None
    /\ file = NotRead
    /\ entries = <<>>
    /\ global_notify = None
    /\ idx = 1 /\ ok = 0 /\ fail = 0
    /\ http = <<>>
    /\ prompts = 0
    /\ exit_code = <<>>
    /\ fn_ret = <<>>
    /\ \/ fn = "ensure_roles_valid" /\ fn_arg \in FnRoleLists
       \/ fn = "parse_actors_csv" /\ fn_arg \in FnFiles
       \/ fn = "create_shared_mailbox" /\ fn_arg \in CreateAnswers

CallEnsureRolesValid ==
    /\ fn = "ensure_roles_valid"
    /\ fn_ret = <<>>
    /\ fn_ret' = <<ensure_roles_valid(fn_arg)>>
    /\ UNCHANGED <<fn, fn_arg>>
    /\ UNCHANGED mainVars

CallParseActorsCsv ==
    /\ fn = "parse_actors_csv"
    /\ fn_ret = <<>>
    /\ fn_ret' = <<parse_actors_csv(fn_arg)>>
    /\ UNCHANGED <<fn, fn_arg>>
    /\ UNCHANGED mainVars

CallCreateSharedMailbox ==
    /\ fn = "create_shared_mailbox"
    /\ fn_ret = <<>>
    /\ fn_ret' = <<create_shared_mailbox(fn_arg)>>
    /\ UNCHANGED <<fn, fn_arg>>
    /\ UNCHANGED mainVars

NextFn ==
    \/ CallEnsureRolesValid
    \/ CallParseActorsCsv
    \/ CallCreateSharedMailbox

SpecFn == InitFn /\ [][NextFn]_vars

-----------------------------------------------------------------------------
(* Properties of a run of main() *)

IsPost(q) == q.method = "POST"
Answered200(q) == q.kind = "response" /\ q.status_code = 200
PostIndexes == {i \in 1..Len(http) : IsPost(http[i])}

\* C1: a create call that returns no mailbox id (a status other than 200, a
\* failed request, no id in the body) ends the process with exit status 1
\* with no set_access call made; every set_access call comes after a create
\* answered 200 and carries the mailbox id that create returned.
C1_SetAccessOnlyAfterCreate ==
    /\ \A i \in PostIndexes :
        /\ i > 1
        /\ http[1].method = "PUT"
        /\ Answered200(http[1])
        /\ http[1].returned # None
        /\ http[i].mailbox_id = http[1].returned
    /\ (http # <<>> /\ ~Answered200(http[1])) => http[1].returned = None
    /\ (http # <<>> /\ http[1].returned = None) =>
        (pc = "exited" /\ exit_code = <<1>> /\ Len(http) = 1)

\* create answered 403: the process has ended with nothing but the PUT sent
C1_Witness ==
    /\ pc = "exited"
    /\ Len(http) = 1
    /\ http[1].method = "PUT"
    /\ http[1].status_code = 403

\* C2: once the assignment pass has started the run never ends fatally; ok
\* counts the set_access calls answered 200 and fail all the others (other
\* status, timeout, connection error); when the run ends, its exit status is
\* 0, every entry has had its call and ok + fail = the number of entries.
C2_TallyCountsEveryOutcome ==
    /\ PostIndexes # {} => pc \in {"assign", "done"}
    /\ pc = "assign" => (exit_code = <<>> /\ ENABLED (SetAccess \/ PrintTotals))
    /\ pc \in {"assign", "done"} =>
        /\ ok = Cardinality({i \in PostIndexes : Answered200(http[i])})
        /\ fail = Cardinality({i \in PostIndexes : ~Answered200(http[i])})
        /\ ok + fail = idx - 1
    /\ pc = "done" =>
        /\ exit_code = <<0>>
        /\ ok + fail = Len(entries)
        /\ Cardinality(PostIndexes) = Len(entries)

\* 3 actors, the call for the 2nd answered 403: 2 successes, 1 failure, exit 0
C2_Witness ==
    /\ pc = "done"
    /\ Len(entries) = 3
    /\ Len(http) = 4
    /\ Answered200(http[2])
    /\ http[3].kind = "response" /\ http[3].status_code = 403
    /\ Answered200(http[4])
    /\ ok = 2 /\ fail = 1
    /\ exit_code = <<0>>

\* the actor file was read and holds nothing but blank and comment lines
OnlyCommentsOrBlank(f) ==
    /\ f # NotRead
    /\ f # NoFile
    /\ \A i \in 1..Len(f) : strip(f[i]) = <<>> \/ Head(strip(f[i])) = "#"

\* C3 as stated: an actor file that is empty or holds only comment and blank
\* lines ends the run fatally before any network call: neither the create
\* request nor a set-access request has been issued.
C3_NoNetworkCallBeforeExit ==
    OnlyCommentsOrBlank(file) =>
        (pc = "exited" /\ exit_code = <<1>> /\ http = <<>>)

\* C3 (amended): an actor file that is empty or holds only comment and blank
\* lines ends the run fatally, exit status 1, before any set-access request;
\* the create request has been issued by then and has returned a mailbox id.
C3_FatalBeforeSetAccess ==
    OnlyCommentsOrBlank(file) =>
        /\ pc = "exited"
        /\ exit_code = <<1>>
        /\ PostIndexes = {}
        /\ Len(http) = 1
        /\ http[1].method = "PUT"
        /\ http[1].returned # None

\* a file of one comment line and one blank line was read
C3_Witness ==
    /\ Len(file) = 2
    /\ file[1] = <<"#", " ", "u9", ",", "shared_mailbox_owner">>
    /\ file[2] = <<>>
    /\ pc = "exited"

CredentialsMissing ==
    strip(getenv(environ, "TOKEN")) = <<>> \/ strip(getenv(environ, "ORG_ID")) = <<>>

BeforeCreate == {"load_env", "ask_email", "ask_name", "ask_description", "check_input"}

\* C4: with TOKEN or ORG_ID unset or empty once trimmed, with an email
\* holding no "@" or with an empty name, the process ends with exit status 1
\* and no request sent; every request sent carries a non-empty token and
\* organization id, those of the environment.
C4_NoRequestWithoutSetup ==
    /\ (CredentialsMissing /\ pc # "load_env") =>
        (pc = "exited" /\ exit_code = <<1>> /\ http = <<>>)
    /\ (pc \notin BeforeCreate /\ ("@" \notin Range(email) \/ name = <<>>)) =>
        (pc = "exited" /\ exit_code = <<1>> /\ http = <<>>)
    /\ http # <<>> =>
        LET tok == strip(getenv(environ, "TOKEN"))
            org == strip(getenv(environ, "ORG_ID"))
        IN  \A i \in 1..Len(http) :
                /\ http[i].token # <<>> /\ http[i].token = tok
                /\ http[i].org_id # <<>> /\ http[i].org_id = org

\* the email typed was "box": the run has ended at the check, nothing sent
C4_Witness ==
    /\ pc = "exited"
    /\ email = <<"box">>
    /\ description # None
    /\ exit_code = <<1>>
    /\ http = <<>>

\* C5: in the assignment pass the k-th set_access call is the call for the
\* k-th entry, with that entry's actor, roles (normalized) and notify; there
\* is one call per entry handled so far, none repeated and none left out, and
\* at the end one call per entry, rows with the same actorId included.
C5_OneCallPerEntryInOrder ==
    pc \in {"assign", "done"} =>
        /\ Len(http) = idx
        /\ \A k \in 1..(idx - 1) :
            /\ IsPost(http[k + 1])
            /\ http[k + 1].actorId = entries[k].actor_id
            /\ http[k + 1].roles = ensure_roles_valid(entries[k].roles)
            /\ entries[k].per_row_notify # None =>
                http[k + 1].notify = entries[k].per_row_notify
        /\ pc = "done" => idx = Len(entries) + 1

\* two rows for the same actor, the first call failed: two calls, each with
\* its row's roles
C5_Witness ==
    /\ pc = "done"
    /\ Len(entries) = 2
    /\ entries[1].actor_id = entries[2].actor_id
    /\ Len(http) = 3
    /\ http[2].actorId = http[3].actorId
    /\ http[2].roles = <<READER, SENDER>>
    /\ http[3].roles = <<OWNER>>
    /\ http[2].status_code = 403

\* C6: the notify of every set_access call is the row's override when the row
\* has one and the session default otherwise, and is one of all, delegates,
\* none; the session default is the NOTIFY of the environment when that is
\* valid and an answer accepted at the prompt otherwise.
C6_NotifyResolved ==
    /\ \A i \in PostIndexes :
        /\ http[i].notify =
            (IF entries[i - 1].per_row_notify # None
             THEN entries[i - 1].per_row_notify
             ELSE global_notify)
        /\ http[i].notify \in VALID_NOTIFY
    /\ pc \in {"assign", "done"} =>
        /\ global_notify \in VALID_NOTIFY
        /\ lower(strip(getenv(environ, "NOTIFY"))) \in VALID_NOTIFY =>
            global_notify = lower(strip(getenv(environ, "NOTIFY")))

\* NOTIFY=bogus was discarded, "all" came from the prompt, and a row's own
\* "none" was sent
C6_Witness ==
    /\ environ["NOTIFY"] = <<"bogus">>
    /\ global_notify = <<"all">>
    /\ \E i \in PostIndexes :
        /\ entries[i - 1].per_row_notify = <<"none">>
        /\ http[i].notify = <<"none">>
    /\ \E i \in PostIndexes :
        /\ entries[i - 1].per_row_notify = None
        /\ http[i].notify = <<"all">>

-----------------------------------------------------------------------------
(* Properties of the functions *)

NoDuplicates(r) == \A i, j \in 1..Len(r) : i # j => r[i] # r[j]

FirstIndex(a, x) == CHOOSE i \in 1..Len(a) : a[i] = x /\ \A j \in 1..(i - 1) : a[j] # x

\* r holds the elements of a once each, in the order of their first occurrence
IsOrderedDedupOf(r, a) ==
    /\ Range(r) = Range(a)
    /\ NoDuplicates(r)
    /\ \A i, j \in 1..Len(r) : i < j => FirstIndex(a, r[i]) < FirstIndex(a, r[j])

Front(r) == SubSeq(r, 1, Len(r) - 1)

\* the first two cases of C7: the owner role alone when it is present; with
\* neither owner nor sender, the roles once each, in order, then sender
OwnerAndDefaultCases(a, r) ==
    /\ OWNER \in Range(a) => r = <<OWNER>>
    /\ (OWNER \notin Range(a) /\ SENDER \notin Range(a)) =>
        /\ r # <<>>
        /\ r[Len(r)] = SENDER
        /\ IsOrderedDedupOf(Front(r), a)

Fields(line) == line_parts(strip(line))

\* rank of i in the set of indexes S
Rank(S, i) == Cardinality({j \in S : j <= i})

\* C8: parse_actors_csv returns one assignment per accepted row, in file
\* order: the row's actor, its roles once each in the order of their first
\* occurrence, its notify override; it dies exactly when no row is accepted.
C8_OneAssignmentPerAcceptedRow ==
    (fn = "parse_actors_csv" /\ fn_ret # <<>> /\ fn_arg # NoFile) =>
        LET rows == {i \in 1..Len(fn_arg) : parse_line(fn_arg[i]).kind = "row"}
            ret  == fn_ret[1]
        IN  /\ ret.died <=> rows = {}
            /\ ~ret.died =>
                /\ Len(ret.out) = Cardinality(rows)
                /\ \A i \in rows :
                    LET e == ret.out[Rank(rows, i)]
                    IN  /\ e.actor_id = Fields(fn_arg[i])[1]
                        /\ IsOrderedDedupOf(e.roles, row_roles(Tail(Fields(fn_arg[i]))))
                        /\ e.per_row_notify = row_notify(Tail(Fields(fn_arg[i])))

\* a file of a short line, a row and a row that repeats a role: two
\* assignments, the second with the role once
C8_Witness ==
    /\ fn = "parse_actors_csv"
    /\ fn_arg = << <<"badrow">>,
                   <<"u1", ",", "shared_mailbox_reader">>,
                   <<"u3", ",", ",", "shared_mailbox_reader", ",",
                     "shared_mailbox_reader", ",", "All">> >>
    /\ fn_ret # <<>>
    /\ ~fn_ret[1].died
    /\ Len(fn_ret[1].out) = 2
    /\ fn_ret[1].out[2] =
        [actor_id |-> <<"u3">>, roles |-> <<READER>>, per_row_notify |-> <<"all">>]

\* f, the non-empty fields of a line, are fewer than 2
FewFields(f) == Len(f) < 2

\* the fields after the first are a single all, delegates or none
NoRoleLeft(f) == Len(f) = 2 /\ lower(f[2]) \in VALID_NOTIFY

IsCommentLine(line) == strip(line) # <<>> /\ Head(strip(line)) = "#"

\* the file read yields one entry, in order, for each line that Rejected
\* (of the line and of its fields) is false for, the run dies at the parse
\* when there is none, and the final tally counts those lines alone
EntriesAreLinesNot(Rejected(_, _)) ==
    (file # NotRead /\ file # NoFile) =>
        LET fields == [i \in 1..Len(file) |-> Fields(file[i])]
            kept   == {i \in 1..Len(file) : ~Rejected(file[i], fields[i])}
            n      == Cardinality(kept)
        IN  /\ n = 0 => (pc = "exited" /\ entries = <<>>)
            /\ n # 0 =>
                /\ Len(entries) = n
                /\ \A i \in kept : entries[Rank(kept, i)].actor_id = fields[i][1]
            /\ pc = "done" => ok + fail = n

\* C9 as stated: a line yields no assignment, the parse going on with the
\* next line, exactly when it has fewer than 2 non-empty fields or no role
\* is left once a trailing all, delegates or none is taken as its notify; such
\* a line counts neither as a processed actor nor as a failure.
C9_RejectedExactlyWhenShortOrNoRole ==
    EntriesAreLinesNot(LAMBDA line, f : FewFields(f) \/ NoRoleLeft(f))

\* C9 (amended): a line yields no assignment, the parse going on with the
\* next line, exactly when it is a comment line (its first character after
\* trimming is #), has fewer than 2 non-empty fields, or no role is left once
\* a trailing all, delegates or none is taken as its notify; such a line
\* counts neither as a processed actor nor as a failure.
C9_RejectedExactlyWhenCommentShortOrNoRole ==
    EntriesAreLinesNot(
        LAMBDA line, f : IsCommentLine(line) \/ FewFields(f) \/ NoRoleLeft(f))

\* badrow, a row and a line with a notify but no role: one actor in the tally
C9_Witness ==
    /\ file = << <<"badrow">>,
                 <<"u1", ",", "shared_mailbox_reader">>,
                 <<"u3", ",", "none">> >>
    /\ pc = "done"
    /\ Len(entries) = 1
    /\ ok + fail = 1

\* a field present with a value that is not null, not "" and not 0
Usable(x) == x.t # "absent" /\ ~Falsy(x)

\* C10: on a 200 answer create_shared_mailbox returns the value of the first
\* of id, mailboxId, resourceId that is present with a non-empty value, and
\* fails, showing the decoded body, only when none of the three is; a field
\* that is absent, null or empty never hides a usable value of a later one.
C10_FirstUsableIdReturned ==
    (/\ fn = "create_shared_mailbox"
     /\ fn_ret # <<>>
     /\ fn_arg.kind = "response"
     /\ fn_arg.status_code = 200
     /\ fn_arg.content = "json") =>
        LET d      == fn_arg.data
            usable == {i \in 1..Len(ID_KEYS) : Usable(d[ID_KEYS[i]])}
            first  == CHOOSE i \in usable : \A j \in usable : i <= j
        IN  IF usable = {}
            THEN fn_ret[1].raised /\ fn_ret[1].shown = d
            ELSE ~fn_ret[1].raised /\ fn_ret[1].value = str(d[ID_KEYS[first]])

====
